---- MODULE Spec2Model ----
(***************************************************************************)
(* Model of the CodeAnt command-line tool (codeant-demo.js, class          *)
(* CodeAntCLI) and of the report aggregator (services/codeantAI.js, class  *)
(* CodeAntAI).                                                             *)
(*                                                                         *)
(*   SpecCLI     one action per command of CodeAntCLI.run; each action is  *)
(*               a whole process invocation, from argument parsing to exit *)
(*   SpecReport  one call of CodeAntAI.generateReport: the three           *)
(*               sub-operations settle in any order, then the join         *)
(*   SpecRec     CodeAntAI.generateRecommendations applied to every pair   *)
(*               of results drawn from bounded sets                        *)
(*   SpecParse   CodeAntCLI.parseOptions applied to every short argument   *)
(*               list                                                      *)
(*   SpecPinned  generateReport called twice with Math.random pinned to a  *)
(*               fixed sequence                                            *)
(*   SpecTest    CodeAntCLI.runTestCases, one category of its loop per     *)
(*               step                                                      *)
(*                                                                         *)
(* and of three pieces of the demo components:                             *)
(*                                                                         *)
(*   SpecSafe    SafeCounter.increment calls interleaved at their awaits   *)
(*   SpecInc     incrementCounter calls and their timer callbacks          *)
(*   SpecFetch   FixedComponent.fetchUserData on mount and on each poll    *)
(***************************************************************************)
EXTENDS Integers, Sequences, FiniteSets, TLC

VARIABLES
    configFile,     \* codeant.config.json: absent, unparsable text, or JSON text of an object
    reportFiles,    \* the codeant-report-<ms>.json files in the working directory
    now,            \* the wall clock read by Date.now() / new Date()
    last,           \* what the most recent invocation of run() did
    aiPc,           \* CodeAntAI.generateReport: "idle", "joining" (at await Promise.all), "returned"
    taskPc,         \* each sub-operation: "idle", "pending" (timer running), "settled"
    taskResult,     \* what each settled sub-operation returned
    completed,      \* the sub-operations in the order their timers fired
    aiReturn,       \* the value generateReport resolved with
    recSecurity,    \* generateRecommendations: the securityScan argument
    recQuality,     \* generateRecommendations: the qualityMetrics argument
    recommendations,\* generateRecommendations: the list returned
    recPc,          \* generateRecommendations: "idle", "ready" (arguments chosen), "called"
    parseArgs,      \* parseOptions: the argument list
    parseResult,    \* parseOptions: the option bag returned
    parsePc,        \* parseOptions: "idle", "ready" (arguments chosen), "called"
    pinnedSource,   \* the numbers a pinned Math.random returns, in order, repeating
    cursor,         \* how many numbers the pinned Math.random has returned since it was reset
    delays,         \* the random part of each sub-operation's timer delay
    firstReturn,    \* the value the first of two generateReport calls resolved with
    reportCalls,    \* how many generateReport calls have been started
    safeCounter,    \* the SafeCounter instance: its fields counter and lock
    incrementPc,    \* each increment() call: "idle", "waiting", "holding", "done"
    incrementTemp,  \* each increment() call's local temp
    incrementReturn,\* the value each increment() call resolved with
    counter,        \* VulnerableTestCases.js: the module-level counter
    temp,           \* each incrementCounter() call's local temp, kept by its timer callback
    timerPc,        \* each incrementCounter() call: "idle", "scheduled", "ran"
    events,         \* the incrementCounter() calls and timer callbacks in the order they ran
    userId,         \* FixedComponent: the userId prop
    userData,       \* FixedComponent: state userData
    error,          \* FixedComponent: state error
    isLoading,      \* FixedComponent: state isLoading
    fetchPc,        \* fetchUserData: "idle", "requesting" (at await axios.get), "settled"
    fetchCalls,     \* how many times fetchUserData has been called
    onErrorCalls,   \* the messages passed to the onError prop, in order
    testOptions,    \* runTestCases: the option bag
    testCategories, \* runTestCases: the categories the loop has still to process
    testResults,    \* runTestCases: the aggregate testResults
    testProcessed,  \* runTestCases: the categories processed, with what each returned
    testPc          \* runTestCases: "idle", "ready", "loop", "done", "thrown"

cliVars   == <<configFile, reportFiles, last>>
aiVars    == <<aiPc, taskPc, taskResult, completed, aiReturn>>
recVars   == <<recSecurity, recQuality, recommendations, recPc>>
parseVars == <<parseArgs, parseResult, parsePc>>
detVars   == <<pinnedSource, cursor, delays, firstReturn, reportCalls>>
safeVars  == <<safeCounter, incrementPc, incrementTemp, incrementReturn>>
incVars   == <<counter, temp, timerPc, events>>
fetchVars == <<userId, userData, error, isLoading, fetchPc, fetchCalls, onErrorCalls>>
testVars  == <<testOptions, testCategories, testResults, testProcessed, testPc>>

vars == <<configFile, reportFiles, now, last, aiPc, taskPc, taskResult, completed, aiReturn,
          recSecurity, recQuality, recommendations, recPc, parseArgs, parseResult, parsePc,
          pinnedSource, cursor, delays, firstReturn, reportCalls,
          safeCounter, incrementPc, incrementTemp, incrementReturn,
          counter, temp, timerPc, events,
          userId, userData, error, isLoading, fetchPc, fetchCalls, onErrorCalls,
          testOptions, testCategories, testResults, testProcessed, testPc>>

----------------------------------------------------------------------------
(* States in which the report aggregator has not been used *)

NoValue == [none |-> TRUE]

Tasks == {"security", "quality", "analysis"}

\* No generateReport call has been made.
AiIdle ==
    /\ aiPc = "idle"
    /\ taskPc = [t \in Tasks |-> "idle"]
    /\ taskResult = [t \in Tasks |-> NoValue]
    /\ completed = <<>>
    /\ aiReturn = NoValue

\* No generateRecommendations call is being examined.
RecIdle ==
    /\ recSecurity = NoValue
    /\ recQuality = NoValue
    /\ recommendations = <<>>
    /\ recPc = "idle"

\* No parseOptions call is being examined.
ParseIdle ==
    /\ parseArgs = <<>>
    /\ parseResult = <<>>
    /\ parsePc = "idle"

\* No pinned random source is in use.
DetIdle ==
    /\ pinnedSource = <<>>
    /\ cursor = 0
    /\ delays = [t \in Tasks |-> 0]
    /\ firstReturn = NoValue
    /\ reportCalls = 0

\* No SafeCounter is in use.
SafeIdle ==
    /\ safeCounter = [counter |-> 0, lock |-> FALSE]
    /\ incrementPc = <<>>
    /\ incrementTemp = <<>>
    /\ incrementReturn = <<>>

\* incrementCounter has not been called.
IncIdle ==
    /\ counter = 0
    /\ temp = <<>>
    /\ timerPc = <<>>
    /\ events = <<>>

\* FixedComponent is not mounted.
FetchIdle ==
    /\ userId = ""
    /\ userData = NoValue
    /\ error = ""
    /\ isLoading = FALSE
    /\ fetchPc = "idle"
    /\ fetchCalls = 0
    /\ onErrorCalls = <<>>

\* No runTestCases call is being examined.
TestIdle ==
    /\ testOptions = <<>>
    /\ testCategories = <<>>
    /\ testResults = NoValue
    /\ testProcessed = <<>>
    /\ testPc = "idle"

\* The variables of the specifications other than SpecCLI, SpecReport, SpecRec and
\* SpecParse.
laterVars == <<detVars, safeVars, incVars, fetchVars, testVars>>

----------------------------------------------------------------------------
(* Bounds *)

\* Number of process invocations explored; the clock ticks once per invocation.
MaxClock == 4

----------------------------------------------------------------------------
(* JavaScript values that occur in the configuration and in option bags *)

JStr(x)  == [tag |-> "string",  s |-> x,      o |-> {}, l |-> <<>>]
JTrue    == [tag |-> "boolean", s |-> "true", o |-> {}, l |-> <<>>]
JObj(ps) == [tag |-> "object",  s |-> "",     o |-> ps, l |-> <<>>]
JArr(xs) == [tag |-> "array",   s |-> "",     o |-> {}, l |-> xs]
JNum(x)  == [tag |-> "number",  s |-> x,      o |-> {}, l |-> <<>>]
JUndefined == [tag |-> "undefined", s |-> "", o |-> {}, l |-> <<>>]

\* The empty object literal {}.
EmptyObject == [k \in {} |-> JUndefined]

\* obj.key: the value of an own property, undefined when there is none.
Get(obj, key) == IF key \in DOMAIN obj THEN obj[key] ELSE JUndefined

\* Truthiness of the values above: only undefined and "" are falsy.
Truthy(v) == ~(v.tag = "undefined" \/ (v.tag = "string" /\ v.s = ""))

\* { ...a, ...b }: shallow spread, the later object's keys win.
Spread(a, b) == [k \in (DOMAIN a) \cup (DOMAIN b) |-> IF k \in DOMAIN b THEN b[k] ELSE a[k]]

\* obj[key] = value on a copy of obj.
SetKey(obj, key, value) == [k \in (DOMAIN obj) \cup {key} |-> IF k = key THEN value ELSE obj[k]]

\* JSON.stringify of an object: properties whose value is undefined are omitted.
JSONstringify(obj) == [k \in {j \in DOMAIN obj : obj[j].tag # "undefined"} |-> obj[k]]

\* new Date(ms).toISOString()
toISOString(ms) == "2025-01-01T00:00:00." \o ToString(ms) \o "Z"

----------------------------------------------------------------------------
(* The file system *)

FileAbsent      == [state |-> "absent",  text |-> EmptyObject]
FileCorrupt     == [state |-> "corrupt", text |-> EmptyObject]
FileOf(content) == [state |-> "json",    text |-> content]

existsSync(f) == f.state # "absent"

\* JSON.parse(readFileSync(f)) throws a SyntaxError on text that is not JSON.
ParseThrows(f) == f.state = "corrupt"
JSONparse(f)   == f.text

----------------------------------------------------------------------------
(* CodeAntCLI *)

defaultConfig ==
    [k \in {"projectName", "repository", "language", "framework",
            "excludePaths", "rules", "thresholds"} |->
        CASE k = "projectName"  -> JStr("FER-PE")
          [] k = "repository"   -> JStr("github.com/MyNameIsBof/lab3")
          [] k = "language"     -> JStr("javascript")
          [] k = "framework"    -> JStr("react")
          [] k = "excludePaths" -> JArr(<<"node_modules", "dist", ".git">>)
          [] k = "rules"        -> JObj({<<"security", "true">>, <<"quality", "true">>,
                                         <<"performance", "true">>, <<"accessibility", "true">>})
          [] k = "thresholds"   -> JObj({<<"securityScore", "8">>, <<"qualityScore", "7">>,
                                         <<"maxVulnerabilities", "0">>})]

startsWithDashes(tok) == Len(tok) >= 2 /\ SubSeq(tok, 1, 2) = "--"

RECURSIVE parseOptionsFrom(_, _, _)
parseOptionsFrom(args, i, options) ==
    IF i > Len(args) THEN options
    ELSE IF startsWithDashes(args[i])
         THEN LET key   == SubSeq(args[i], 3, Len(args[i]))
                  value == IF i + 1 <= Len(args) /\ args[i + 1] # ""
                           THEN JStr(args[i + 1]) ELSE JTrue
              IN  parseOptionsFrom(args, i + 2, SetKey(options, key, value))
         ELSE parseOptionsFrom(args, i + 2, options)

parseOptions(args) == parseOptionsFrom(args, 1, EmptyObject)

NotInitializedMsg == "Project not initialized. Run \"init\" first."
NotConnectedMsg   == "Repository not connected. Run \"connect\" first."
SyntaxErrorMsg    == "Unexpected token in JSON"

\* isProjectConnected(): may throw; these two say whether it throws and what it returns.
isProjectConnectedThrows(f) == existsSync(f) /\ ParseThrows(f)

\* Variant: the flag is tested for truthiness instead of identity with true.
isProjectConnectedTruthy(f) ==
    IF ~existsSync(f) THEN FALSE
    ELSE Truthy(Get(JSONparse(f), "connected"))

isProjectConnected(f) ==
    IF ~existsSync(f) THEN FALSE
    ELSE Get(JSONparse(f), "connected") = JTrue

\* Argument lists given after the command name (process.argv.slice(3)).
ArgLists ==
    { <<>>,
      <<"--connected">>,
      <<"--connected", "true">>,
      <<"--projectName", "X">>,
      <<"--projectName", "X", "--connected">>,
      <<"--format", "json">>,
      <<"--json">>,
      <<"--type", "secrets">>,
      <<"--fix", "--type", "secrets">>,
      <<"--repo", "github.com/u/r">>,
      <<"--category", "security">>,
      <<"--rules", "security">>,
      <<"--connectedAt", "">> }

\* Command words that the switch in run() does not list, and the absent command.
OtherCommands == {"", "help", "deploy"}

\* The command words the switch in run() lists.
FixedCommands == {"init", "connect", "scan", "analyze", "test", "demo", "report", "config", "help"}

\* The operation the switch in run() routes a command word to.
Route(command) ==
    CASE command = "init"    -> "initProject"
      [] command = "connect" -> "connectRepository"
      [] command = "scan"    -> "runScan"
      [] command = "analyze" -> "analyzeCode"
      [] command = "test"    -> "runTestCases"
      [] command = "demo"    -> "runDemo"
      [] command = "report"  -> "generateReport"
      [] command = "config"  -> "showConfig"
      [] OTHER               -> "showHelp"

\* The record run() leaves behind: the command word (args[2], "" when there is none)
\* and options it was given, the operation it called and how often, whether that
\* operation threw, the exit status and error lines of the process, and the files as
\* they were before it ran.
Outcome(given, options, raised, status, lines, message, writes) ==
    [given        |-> given,
     command      |-> IF given = "" THEN "help" ELSE given,
     operation    |-> Route(IF given = "" THEN "help" ELSE given),
     calls        |-> 1,
     options      |-> options,
     raised       |-> raised,
     exit         |-> status,
     stderr       |-> message,
     errorLines   |-> lines,
     configWrites |-> writes,
     pre          |-> configFile,
     preReports   |-> reportFiles]

\* run(): the operation returned normally.
Completes(command, options, writes) ==
    /\ last' = Outcome(command, options, FALSE, 0, 0, "", writes)
    /\ now' = now + 1
    /\ UNCHANGED <<aiVars, recVars, parseVars, laterVars>>

\* Variant: the catch prints the message but does not end the process with status 1.
ThrowsNoExit(command, options, message) ==
    /\ last' = Outcome(command, options, TRUE, 0, 1, message, 0)
    /\ now' = now + 1
    /\ UNCHANGED <<aiVars, recVars, parseVars, laterVars>>
    /\ UNCHANGED <<configFile, reportFiles>>

\* run(): the operation threw; the catch prints the message and calls process.exit(1).
Throws(command, options, message) ==
    /\ last' = Outcome(command, options, TRUE, 1, 1, message, 0)
    /\ now' = now + 1
    /\ UNCHANGED <<aiVars, recVars, parseVars, laterVars>>
    /\ UNCHANGED <<configFile, reportFiles>>

\* Variant: init merges into the record already on disk instead of replacing it.
initProjectMergesExisting(options) ==
    LET existing == IF existsSync(configFile) /\ ~ParseThrows(configFile)
                    THEN JSONparse(configFile) ELSE EmptyObject
        config   == Spread(Spread(existing, defaultConfig), options)
    IN  /\ configFile' = FileOf(JSONstringify(config))
        /\ UNCHANGED reportFiles
        /\ Completes("init", options, 1)

\* Variant: the spread is written the other way round, so the defaults win.
initProjectDefaultsWin(options) ==
    LET config == Spread(options, defaultConfig)
    IN  /\ configFile' = FileOf(JSONstringify(config))
        /\ UNCHANGED reportFiles
        /\ Completes("init", options, 1)

initProject(options) ==
    LET config == Spread(defaultConfig, options)
    IN  /\ configFile' = FileOf(JSONstringify(config))
        /\ UNCHANGED reportFiles
        /\ Completes("init", options, 1)

\* Variant: the existence check is missing and a missing file reads as {}.
connectRepositoryUnchecked(options) ==
    LET config  == IF existsSync(configFile) /\ ~ParseThrows(configFile)
                   THEN JSONparse(configFile) ELSE EmptyObject
        stamped == SetKey(SetKey(config, "connected", JTrue),
                          "connectedAt", JStr(toISOString(now)))
    IN  /\ configFile' = FileOf(JSONstringify(stamped))
        /\ UNCHANGED reportFiles
        /\ Completes("connect", options, 1)

\* Variant: the timestamp assignment is missing.
connectRepositoryNoStamp(options) ==
    IF ~existsSync(configFile) THEN Throws("connect", options, NotInitializedMsg)
    ELSE IF ParseThrows(configFile) THEN Throws("connect", options, SyntaxErrorMsg)
    ELSE LET config    == JSONparse(configFile)
             connected == SetKey(config, "connected", JTrue)
         IN  /\ configFile' = FileOf(JSONstringify(connected))
             /\ UNCHANGED reportFiles
             /\ Completes("connect", options, 1)

\* Variant: the record written back is rebuilt from the defaults, not from the file.
connectRepositoryFromDefaults(options) ==
    IF ~existsSync(configFile) THEN Throws("connect", options, NotInitializedMsg)
    ELSE IF ParseThrows(configFile) THEN Throws("connect", options, SyntaxErrorMsg)
    ELSE LET connected == SetKey(defaultConfig, "connected", JTrue)
             stamped   == SetKey(connected, "connectedAt", JStr(toISOString(now)))
         IN  /\ configFile' = FileOf(JSONstringify(stamped))
             /\ UNCHANGED reportFiles
             /\ Completes("connect", options, 1)

connectRepository(options) ==
    IF ~existsSync(configFile) THEN Throws("connect", options, NotInitializedMsg)
    ELSE IF ParseThrows(configFile) THEN Throws("connect", options, SyntaxErrorMsg)
    ELSE LET config    == JSONparse(configFile)
             connected == SetKey(config, "connected", JTrue)
             stamped   == SetKey(connected, "connectedAt", JStr(toISOString(now)))
         IN  /\ configFile' = FileOf(JSONstringify(stamped))
             /\ UNCHANGED reportFiles
             /\ Completes("connect", options, 1)

\* Variant: the run is recorded in the config file before the admission check.
GatedAfterWrite(command, options, body) ==
    IF isProjectConnectedThrows(configFile) THEN Throws(command, options, SyntaxErrorMsg)
    ELSE IF ~isProjectConnected(configFile)
    THEN /\ configFile' = FileOf(SetKey(IF existsSync(configFile) THEN JSONparse(configFile)
                                                                    ELSE EmptyObject,
                                         "lastCommand", JStr(command)))
         /\ UNCHANGED reportFiles
         /\ last' = Outcome(command, options, TRUE, 1, 1, NotConnectedMsg, 1)
         /\ now' = now + 1
         /\ UNCHANGED <<aiVars, recVars, parseVars, laterVars>>
    ELSE body

\* The admission check shared by runScan, analyzeCode, runTestCases and generateReport.
Gated(command, options, body) ==
    IF isProjectConnectedThrows(configFile) THEN Throws(command, options, SyntaxErrorMsg)
    ELSE IF ~isProjectConnected(configFile) THEN Throws(command, options, NotConnectedMsg)
    ELSE body

runScan(options) ==
    Gated("scan", options,
          /\ UNCHANGED <<configFile, reportFiles>>
          /\ Completes("scan", options, 0))

analyzeCode(options) ==
    Gated("analyze", options,
          /\ UNCHANGED <<configFile, reportFiles>>
          /\ Completes("analyze", options, 0))

runTestCases(options) ==
    Gated("test", options,
          /\ UNCHANGED <<configFile, reportFiles>>
          /\ Completes("test", options, 0))

reportData ==
    [k \in {"timestamp", "project", "repository", "overall_score",
            "security", "quality", "performance", "accessibility"} |->
        CASE k = "timestamp"     -> JStr(toISOString(now))
          [] k = "project"       -> JStr("FER-PE")
          [] k = "repository"    -> JStr("github.com/MyNameIsBof/lab3")
          [] k = "overall_score" -> JNum("8.3")
          [] k = "security"      -> JObj({<<"score", "8.5">>, <<"vulnerabilities", "1">>,
                                          <<"severity", "Medium">>})
          [] k = "quality"       -> JObj({<<"score", "8.2">>, <<"maintainability", "85">>,
                                          <<"complexity", "3.2">>, <<"test_coverage", "72">>})
          [] k = "performance"   -> JObj({<<"score", "7.8">>, <<"bundle_size", "245KB">>,
                                          <<"suggestions", "3">>})
          [] k = "accessibility" -> JObj({<<"score", "9.1">>, <<"compliance", "WCAG 2.1 AA">>})]

reportFileName == "codeant-report-" \o ToString(now) \o ".json"

\* Variant: only --format json selects the file; the json option is not looked at.
cliGenerateReportFormatOnly(options) ==
    Gated("report", options,
          /\ IF Get(options, "format") = JStr("json")
             THEN reportFiles' = {f \in reportFiles : f.name # reportFileName}
                                 \cup {[name |-> reportFileName, text |-> JSONstringify(reportData)]}
             ELSE UNCHANGED reportFiles
          /\ UNCHANGED configFile
          /\ Completes("report", options, 0))

cliGenerateReport(options) ==
    Gated("report", options,
          /\ IF Get(options, "format") = JStr("json") \/ Truthy(Get(options, "json"))
             THEN reportFiles' = {f \in reportFiles : f.name # reportFileName}
                                 \cup {[name |-> reportFileName, text |-> JSONstringify(reportData)]}
             ELSE UNCHANGED reportFiles
          /\ UNCHANGED configFile
          /\ Completes("report", options, 0))

\* Variant: showConfig is put behind the admission check of the gated commands.
showConfigGated(options) ==
    Gated("config", options,
          /\ UNCHANGED <<configFile, reportFiles>>
          /\ Completes("config", options, 0))

\* Variant: a config file that does not parse is reported like a missing one.
showConfigIgnoresCorrupt(options) ==
    IF ~existsSync(configFile) \/ ParseThrows(configFile)
    THEN /\ UNCHANGED <<configFile, reportFiles>>
         /\ Completes("config", options, 0)
    ELSE /\ UNCHANGED <<configFile, reportFiles>>
         /\ Completes("config", options, 0)

showConfig(options) ==
    IF ~existsSync(configFile)
    THEN /\ UNCHANGED <<configFile, reportFiles>>
         /\ Completes("config", options, 0)
    ELSE IF ParseThrows(configFile) THEN Throws("config", options, SyntaxErrorMsg)
    ELSE /\ UNCHANGED <<configFile, reportFiles>>
         /\ Completes("config", options, 0)

runDemo(options) ==
    /\ UNCHANGED <<configFile, reportFiles>>
    /\ Completes("demo", options, 0)

\* Variant: a command word the switch does not list is an error.
showHelpRejectsUnknown(command, options) ==
    IF command \notin FixedCommands \cup {""}
    THEN Throws(command, options, "Unknown command")
    ELSE /\ UNCHANGED <<configFile, reportFiles>>
         /\ Completes(command, options, 0)

showHelp(command, options) ==
    /\ UNCHANGED <<configFile, reportFiles>>
    /\ Completes(command, options, 0)

----------------------------------------------------------------------------
(* One process invocation per step: run(process.argv) *)

RunInit    == \E args \in ArgLists : now < MaxClock /\ initProject(parseOptions(args))
RunConnect == \E args \in ArgLists : now < MaxClock /\ connectRepository(parseOptions(args))
RunScan    == \E args \in ArgLists : now < MaxClock /\ runScan(parseOptions(args))
RunAnalyze == \E args \in ArgLists : now < MaxClock /\ analyzeCode(parseOptions(args))
RunTest    == \E args \in ArgLists : now < MaxClock /\ runTestCases(parseOptions(args))
RunDemo    == \E args \in ArgLists : now < MaxClock /\ runDemo(parseOptions(args))
RunReport  == \E args \in ArgLists : now < MaxClock /\ cliGenerateReport(parseOptions(args))
RunConfig  == \E args \in ArgLists : now < MaxClock /\ showConfig(parseOptions(args))
RunHelp    == \E args \in ArgLists, command \in OtherCommands :
                  now < MaxClock /\ showHelp(command, parseOptions(args))

NoRun == [given |-> "", command |-> "", operation |-> "", calls |-> 0,
          options |-> EmptyObject, raised |-> FALSE, exit |-> 0, stderr |-> "",
          errorLines |-> 0, configWrites |-> 0, pre |-> FileAbsent, preReports |-> {}]

InitCLI ==
    /\ configFile \in {FileAbsent, FileCorrupt}
    /\ reportFiles = {}
    /\ now = 0
    /\ last = NoRun
    /\ AiIdle
    /\ RecIdle
    /\ ParseIdle
    /\ DetIdle
    /\ SafeIdle
    /\ IncIdle
    /\ FetchIdle
    /\ TestIdle

NextCLI ==
    \/ RunInit
    \/ RunConnect
    \/ RunScan
    \/ RunAnalyze
    \/ RunTest
    \/ RunDemo
    \/ RunReport
    \/ RunConfig
    \/ RunHelp

SpecCLI == InitCLI /\ [][NextCLI]_vars

----------------------------------------------------------------------------
(* CodeAntAI: the mock producers *)

\* Math.random() returns r / RandDenom for a draw r in 0 .. RandDenom - 1.
RandDenom == 3
Draws == 0 .. (RandDenom - 1)

\* The random numbers behind the five quality metrics: the two ends of [0, 1).
MetricDraws == {0, RandDenom - 1}

\* Math.floor(Math.random() * n) for the draw r.
floorRandom(r, n) == (r * n) \div RandDenom

aiProjectConfig ==
    [projectName |-> "FER-PE", repository |-> "github.com/MyNameIsBof/lab3",
     language |-> "javascript", framework |-> "react"]

mockVulnerabilities ==
    << [id |-> "CVE-2024-1234", severity |-> "Medium", package |-> "axios",
        description |-> "Potential XSS vulnerability in request handling",
        fix |-> "Update to axios@1.7.0 or later"],
       [id |-> "CODEANT-SEC-001", severity |-> "Low", file |-> "src/components/AddStudent.jsx",
        description |-> "Missing input validation",
        fix |-> "Add input sanitization and validation"] >>

generateMockVulnerabilities(r) == IF 2 * r > RandDenom THEN mockVulnerabilities ELSE <<>>

generateMockQualityMetrics(r1, r2, r3, r4, r5) ==
    [maintainabilityIndex |-> floorRandom(r1, 20) + 80,
     cyclomaticComplexity |-> floorRandom(r2, 5) + 2,
     testCoverage         |-> floorRandom(r3, 30) + 70,
     codeSmells           |-> floorRandom(r4, 3),
     technicalDebt        |-> ToString(floorRandom(r5, 5) + 1) \o "h"]

generateMockAnalysisResults(r) ==
    [totalFiles |-> 15, linesOfCode |-> 2450, issuesFound |-> floorRandom(r, 5) + 2,
     suggestions |-> << "Consider using React.memo for performance optimization",
                        "Add PropTypes for better type checking",
                        "Implement error boundaries for better error handling" >>]

\* Variant: the security score is offset by 9 instead of 8.
SecurityScanDataFromNine(rv, rs) ==
    [vulnerabilities |-> generateMockVulnerabilities(rv), securityScore |-> floorRandom(rs, 3) + 9]

\* Variant: the quality score is offset by 7 instead of 8.
QualityMetricsDataFromSeven(r1, r2, r3, r4, r5, rq) ==
    [metrics |-> generateMockQualityMetrics(r1, r2, r3, r4, r5), qualityScore |-> floorRandom(rq, 2) + 7]

\* response.data of simulateApiCall for the three endpoints generateReport reaches.
SecurityScanData(rv, rs) ==
    [vulnerabilities |-> generateMockVulnerabilities(rv), securityScore |-> floorRandom(rs, 3) + 8]

QualityMetricsData(r1, r2, r3, r4, r5, rq) ==
    [metrics |-> generateMockQualityMetrics(r1, r2, r3, r4, r5), qualityScore |-> floorRandom(rq, 2) + 8]

AnalysisRunData(r) ==
    [analysisId |-> "analysis_" \o ToString(now), results |-> generateMockAnalysisResults(r)]

\* The request behind simulateApiCall was refused; error.message of the rejection.
ApiErrorMsg == "Network Error"

\* What getSecurityScan, getQualityMetrics and analyzeCode return.
SecurityOk(data) ==
    [success |-> TRUE, vulnerabilities |-> data.vulnerabilities, securityScore |-> data.securityScore]
QualityOk(data) ==
    [success |-> TRUE, metrics |-> data.metrics, qualityScore |-> data.qualityScore]
AnalysisOk(data) ==
    [success |-> TRUE, analysisId |-> data.analysisId, results |-> data.results]
Failed(message) == [success |-> FALSE, error |-> message]

----------------------------------------------------------------------------
(* CodeAntAI.generateRecommendations *)

SecurityRecommendation(count) ==
    [category |-> "Security", priority |-> "High",
     message  |-> "Found " \o ToString(count)
                  \o " security vulnerabilities. Immediate attention required.",
     actions  |-> << "Update dependencies with known vulnerabilities",
                     "Implement input validation",
                     "Add authentication middleware" >>]

QualityRecommendation ==
    [category |-> "Code Quality", priority |-> "Medium",
     message  |-> "Code quality score below threshold. Consider refactoring.",
     actions  |-> << "Add more unit tests", "Reduce code complexity", "Improve documentation" >>]

PerformanceRecommendation ==
    [category |-> "Performance", priority |-> "Low",
     message  |-> "Optimize bundle size and loading performance.",
     actions  |-> << "Implement code splitting", "Optimize images", "Add lazy loading" >>]

\* Variant: the Performance entry is appended only when the quality data arrived.
generateRecommendationsGatedPerformance(securityScan, qualityMetrics) ==
    LET security == IF securityScan.success /\ Len(securityScan.vulnerabilities) > 0
                    THEN << SecurityRecommendation(Len(securityScan.vulnerabilities)) >>
                    ELSE <<>>
        quality  == IF qualityMetrics.success /\ qualityMetrics.qualityScore < 8
                    THEN << QualityRecommendation >>
                    ELSE <<>>
        perf     == IF qualityMetrics.success THEN << PerformanceRecommendation >> ELSE <<>>
    IN  security \o quality \o perf

\* Variant: the Security entry needs more than one vulnerability.
generateRecommendationsOffByOne(securityScan, qualityMetrics) ==
    LET security == IF securityScan.success /\ Len(securityScan.vulnerabilities) > 1
                    THEN << SecurityRecommendation(Len(securityScan.vulnerabilities)) >>
                    ELSE <<>>
        quality  == IF qualityMetrics.success /\ qualityMetrics.qualityScore < 8
                    THEN << QualityRecommendation >>
                    ELSE <<>>
    IN  security \o quality \o << PerformanceRecommendation >>

\* Variant: the quality threshold is inclusive.
generateRecommendationsInclusive(securityScan, qualityMetrics) ==
    LET security == IF securityScan.success /\ Len(securityScan.vulnerabilities) > 0
                    THEN << SecurityRecommendation(Len(securityScan.vulnerabilities)) >>
                    ELSE <<>>
        quality  == IF qualityMetrics.success /\ qualityMetrics.qualityScore <= 8
                    THEN << QualityRecommendation >>
                    ELSE <<>>
    IN  security \o quality \o << PerformanceRecommendation >>

\* Variant: the Performance entry is put at the front of the list.
generateRecommendationsPerformanceFirst(securityScan, qualityMetrics) ==
    LET security == IF securityScan.success /\ Len(securityScan.vulnerabilities) > 0
                    THEN << SecurityRecommendation(Len(securityScan.vulnerabilities)) >>
                    ELSE <<>>
        quality  == IF qualityMetrics.success /\ qualityMetrics.qualityScore < 8
                    THEN << QualityRecommendation >>
                    ELSE <<>>
    IN  << PerformanceRecommendation >> \o security \o quality

generateRecommendations(securityScan, qualityMetrics) ==
    LET security == IF securityScan.success /\ Len(securityScan.vulnerabilities) > 0
                    THEN << SecurityRecommendation(Len(securityScan.vulnerabilities)) >>
                    ELSE <<>>
        quality  == IF qualityMetrics.success /\ qualityMetrics.qualityScore < 8
                    THEN << QualityRecommendation >>
                    ELSE <<>>
    IN  security \o quality \o << PerformanceRecommendation >>

----------------------------------------------------------------------------
(* CodeAntAI.generateReport: three sub-operations joined by Promise.all *)

\* Variant: the sub-operations are awaited one after the other; only the first is started.
StartGenerateReportSequential ==
    /\ aiPc = "idle"
    /\ aiPc' = "joining"
    /\ taskPc' = [t \in Tasks |-> IF t = "security" THEN "pending" ELSE "idle"]
    /\ UNCHANGED <<taskResult, completed, aiReturn, now, cliVars, recVars, parseVars, laterVars>>

\* generateReport is called: getSecurityScan(), getQualityMetrics() and analyzeCode()
\* each run up to the timer in simulateApiCall, then generateReport awaits Promise.all.
StartGenerateReport ==
    /\ aiPc = "idle"
    /\ aiPc' = "joining"
    /\ taskPc' = [t \in Tasks |-> "pending"]
    /\ UNCHANGED <<taskResult, completed, aiReturn, now, cliVars, recVars, parseVars, laterVars>>

\* A sub-operation's timer fires and the sub-operation returns result.
Settle(t, result) ==
    /\ taskPc[t] = "pending"
    /\ taskPc' = [taskPc EXCEPT ![t] = "settled"]
    /\ taskResult' = [taskResult EXCEPT ![t] = result]
    /\ completed' = Append(completed, t)
    /\ now' = now + 1
    /\ UNCHANGED <<aiPc, aiReturn, cliVars, recVars, parseVars, laterVars>>

SecurityScanResolves ==
    \E rv \in Draws, rs \in Draws :
        Settle("security", SecurityOk(SecurityScanData(rv, rs)))

QualityMetricsResolves ==
    \E r1 \in MetricDraws, r2 \in MetricDraws, r3 \in MetricDraws,
       r4 \in MetricDraws, r5 \in MetricDraws, rq \in Draws :
        Settle("quality", QualityOk(QualityMetricsData(r1, r2, r3, r4, r5, rq)))

AnalysisResolves ==
    \E r \in Draws : Settle("analysis", AnalysisOk(AnalysisRunData(r)))

\* The request fails; the sub-operation's catch turns the rejection into a result.
RequestRejects ==
    \E t \in Tasks : Settle(t, Failed(ApiErrorMsg))

\* Promise.all resolves once every promise it was given has.
AllSettled == \A t \in Tasks : taskPc[t] = "settled"

\* Variant: every section is chosen by the security scan's success flag.
BuildReportOneFlag(securityScan, qualityMetrics, analysisResults) ==
    [timestamp       |-> toISOString(now),
     project         |-> aiProjectConfig,
     security        |-> IF securityScan.success THEN securityScan
                         ELSE [error |-> "Failed to fetch security data"],
     quality         |-> IF securityScan.success THEN qualityMetrics
                         ELSE [error |-> "Failed to fetch quality data"],
     analysis        |-> IF securityScan.success THEN analysisResults
                         ELSE [error |-> "Failed to run analysis"],
     recommendations |-> generateRecommendations(securityScan, qualityMetrics)]

\* The report generateReport builds from the three awaited results.
BuildReport(securityScan, qualityMetrics, analysisResults) ==
    [timestamp       |-> toISOString(now),
     project         |-> aiProjectConfig,
     security        |-> IF securityScan.success THEN securityScan
                         ELSE [error |-> "Failed to fetch security data"],
     quality         |-> IF qualityMetrics.success THEN qualityMetrics
                         ELSE [error |-> "Failed to fetch quality data"],
     analysis        |-> IF analysisResults.success THEN analysisResults
                         ELSE [error |-> "Failed to run analysis"],
     recommendations |-> generateRecommendations(securityScan, qualityMetrics)]

\* The continuation of await Promise.all([...]): destructure by position, build, return.
JoinAndReturn ==
    /\ aiPc = "joining"
    /\ AllSettled
    /\ aiPc' = "returned"
    /\ aiReturn' = [success |-> TRUE,
                    report  |-> BuildReport(taskResult["security"], taskResult["quality"],
                                            taskResult["analysis"])]
    /\ UNCHANGED <<taskPc, taskResult, completed, now, cliVars, recVars, parseVars, laterVars>>

InitReport ==
    /\ configFile = FileAbsent
    /\ reportFiles = {}
    /\ now = 0
    /\ last = NoRun
    /\ AiIdle
    /\ RecIdle
    /\ ParseIdle
    /\ DetIdle
    /\ SafeIdle
    /\ IncIdle
    /\ FetchIdle
    /\ TestIdle

NextReport ==
    \/ StartGenerateReport
    \/ SecurityScanResolves
    \/ QualityMetricsResolves
    \/ AnalysisResolves
    \/ RequestRejects
    \/ JoinAndReturn

SpecReport == InitReport /\ [][NextReport]_vars

----------------------------------------------------------------------------
(* generateRecommendations applied to every pair of results its callers can pass *)

\* Longest vulnerability list tried.
MaxVulns == 2

QualityScores  == 0 .. 10
SecurityScores == 8 .. 10

RECURSIVE VulnerabilityLists(_)
VulnerabilityLists(n) ==
    IF n = 0 THEN { <<>> }
    ELSE VulnerabilityLists(n - 1)
         \cup { Append(l, v) : l \in {x \in VulnerabilityLists(n - 1) : Len(x) = n - 1},
                               v \in {mockVulnerabilities[1], mockVulnerabilities[2]} }

\* The values getSecurityScan can return.
SecurityResults ==
    { SecurityOk([vulnerabilities |-> l, securityScore |-> sc]) :
          l \in VulnerabilityLists(MaxVulns), sc \in SecurityScores }
    \cup { Failed(ApiErrorMsg) }

\* The values getQualityMetrics can return.
QualityResults ==
    { QualityOk([metrics |-> generateMockQualityMetrics(r, r, r, r, r), qualityScore |-> q]) :
          r \in MetricDraws, q \in QualityScores }
    \cup { Failed(ApiErrorMsg) }

CallGenerateRecommendations ==
    /\ recPc = "ready"
    /\ recommendations' = generateRecommendations(recSecurity, recQuality)
    /\ recPc' = "called"
    /\ UNCHANGED <<recSecurity, recQuality, now, cliVars, aiVars, parseVars, laterVars>>

InitRec ==
    /\ configFile = FileAbsent
    /\ reportFiles = {}
    /\ now = 0
    /\ last = NoRun
    /\ AiIdle
    /\ recSecurity \in SecurityResults
    /\ recQuality \in QualityResults
    /\ recommendations = <<>>
    /\ recPc = "ready"
    /\ ParseIdle
    /\ DetIdle
    /\ SafeIdle
    /\ IncIdle
    /\ FetchIdle
    /\ TestIdle

NextRec == CallGenerateRecommendations

SpecRec == InitRec /\ [][NextRec]_vars

----------------------------------------------------------------------------
(* parseOptions applied to every short argument list *)

\* Longest argument list tried.
MaxArgs == 3

\* Two flags and two plain words.
Tokens == {"--fix", "--type", "secrets", "json"}

RECURSIVE ArgSeqs(_)
ArgSeqs(n) ==
    IF n = 0 THEN { <<>> }
    ELSE ArgSeqs(n - 1)
         \cup { Append(a, t) : a \in {x \in ArgSeqs(n - 1) : Len(x) = n - 1}, t \in Tokens }

CallParseOptions ==
    /\ parsePc = "ready"
    /\ parseResult' = parseOptions(parseArgs)
    /\ parsePc' = "called"
    /\ UNCHANGED <<parseArgs, now, cliVars, aiVars, recVars, laterVars>>

InitParse ==
    /\ configFile = FileAbsent
    /\ reportFiles = {}
    /\ now = 0
    /\ last = NoRun
    /\ AiIdle
    /\ RecIdle
    /\ parseArgs \in ArgSeqs(MaxArgs)
    /\ parseResult = <<>>
    /\ parsePc = "ready"
    /\ DetIdle
    /\ SafeIdle
    /\ IncIdle
    /\ FetchIdle
    /\ TestIdle

NextParse == CallParseOptions

SpecParse == InitParse /\ [][NextParse]_vars

----------------------------------------------------------------------------
(* CodeAntAI.generateReport called twice with Math.random pinned to a fixed sequence *)

\* Length of the pinned sequence.
SeedLen == 3

\* The k-th number the pinned Math.random returns after a reset.
Draw(k) == pinnedSource[((k - 1) % Len(pinnedSource)) + 1]

\* The position of each sub-operation in the array given to Promise.all.
TaskIndex(t) == CASE t = "security" -> 1 [] t = "quality" -> 2 [] t = "analysis" -> 3

\* setTimeout: the pending timer with the shortest delay fires next, the one set
\* first among equal delays.
NextToFire(t) ==
    /\ taskPc[t] = "pending"
    /\ \A u \in Tasks \ {t} :
           taskPc[u] = "pending"
               => \/ delays[t] < delays[u]
                  \/ delays[t] = delays[u] /\ TaskIndex(t) < TaskIndex(u)

\* How many random numbers a sub-operation takes once its timer has fired.
DrawsTaken(t) == CASE t = "security" -> 2 [] t = "quality" -> 6 [] t = "analysis" -> 1

\* What a sub-operation returns when the pinned Math.random has returned k numbers.
PinnedResult(t, k) ==
    CASE t = "security" -> SecurityOk(SecurityScanData(Draw(k + 1), Draw(k + 2)))
      [] t = "quality"  -> QualityOk(QualityMetricsData(Draw(k + 1), Draw(k + 2), Draw(k + 3),
                                                         Draw(k + 4), Draw(k + 5), Draw(k + 6)))
      [] t = "analysis" -> AnalysisOk(AnalysisRunData(Draw(k + 1)))

\* generateReport is called: each sub-operation takes one random number for its
\* timer delay, in the order of the array, then generateReport awaits Promise.all.
StartPinnedReport ==
    /\ aiPc = "idle"
    /\ reportCalls < 2
    /\ reportCalls' = reportCalls + 1
    /\ aiPc' = "joining"
    /\ taskPc' = [t \in Tasks |-> "pending"]
    /\ delays' = [t \in Tasks |-> Draw(cursor + TaskIndex(t))]
    /\ cursor' = cursor + 3
    /\ UNCHANGED <<taskResult, completed, aiReturn, pinnedSource, firstReturn, now>>
    /\ UNCHANGED <<cliVars, recVars, parseVars, safeVars, incVars, fetchVars, testVars>>

\* The next timer fires and its sub-operation builds its result.
PinnedTimerFires ==
    \E t \in Tasks :
        /\ NextToFire(t)
        /\ taskPc' = [taskPc EXCEPT ![t] = "settled"]
        /\ taskResult' = [taskResult EXCEPT ![t] = PinnedResult(t, cursor)]
        /\ cursor' = cursor + DrawsTaken(t)
        /\ completed' = Append(completed, t)
        /\ now' = now + 1
        /\ UNCHANGED <<aiPc, aiReturn, pinnedSource, delays, firstReturn, reportCalls>>
        /\ UNCHANGED <<cliVars, recVars, parseVars, safeVars, incVars, fetchVars, testVars>>

\* The continuation of await Promise.all([...]) under the pinned source.
PinnedJoinAndReturn ==
    /\ reportCalls > 0
    /\ aiPc = "joining"
    /\ AllSettled
    /\ aiPc' = "returned"
    /\ aiReturn' = [success |-> TRUE,
                    report  |-> BuildReport(taskResult["security"], taskResult["quality"],
                                            taskResult["analysis"])]
    /\ UNCHANGED <<taskPc, taskResult, completed, now, detVars>>
    /\ UNCHANGED <<cliVars, recVars, parseVars, safeVars, incVars, fetchVars, testVars>>

\* The caller keeps the first report, resets the pinned source and is ready to call
\* generateReport again on the same CodeAntAI instance.
ResetPinnedSource ==
    /\ aiPc = "returned"
    /\ reportCalls = 1
    /\ firstReturn' = aiReturn
    /\ cursor' = 0
    /\ aiPc' = "idle"
    /\ taskPc' = [t \in Tasks |-> "idle"]
    /\ taskResult' = [t \in Tasks |-> NoValue]
    /\ completed' = <<>>
    /\ aiReturn' = NoValue
    /\ UNCHANGED <<pinnedSource, delays, reportCalls, now>>
    /\ UNCHANGED <<cliVars, recVars, parseVars, safeVars, incVars, fetchVars, testVars>>

InitPinned ==
    /\ configFile = FileAbsent
    /\ reportFiles = {}
    /\ now = 0
    /\ last = NoRun
    /\ AiIdle
    /\ RecIdle
    /\ ParseIdle
    /\ pinnedSource \in [1 .. SeedLen -> Draws]
    /\ cursor = 0
    /\ delays = [t \in Tasks |-> 0]
    /\ firstReturn = NoValue
    /\ reportCalls = 0
    /\ SafeIdle
    /\ IncIdle
    /\ FetchIdle
    /\ TestIdle

NextPinned ==
    \/ StartPinnedReport
    \/ PinnedTimerFires
    \/ PinnedJoinAndReturn
    \/ ResetPinnedSource

SpecPinned == InitPinned /\ [][NextPinned]_vars

----------------------------------------------------------------------------
(* SafeCounter: increment() calls on one instance, interleaved at their awaits *)

\* Number of increment() calls.
MaxCalls == 4

Calls == 1 .. MaxCalls

\* Variant: the loop is passed and temp is read, but the lock is not taken.
TestAndSetNoLock(c) ==
    IF safeCounter.lock
    THEN /\ incrementPc' = [incrementPc EXCEPT ![c] = "waiting"]
         /\ UNCHANGED <<safeCounter, incrementTemp>>
    ELSE /\ incrementTemp' = [incrementTemp EXCEPT ![c] = safeCounter.counter]
         /\ incrementPc' = [incrementPc EXCEPT ![c] = "holding"]
         /\ UNCHANGED safeCounter

\* One pass of `while (this.lock) await timer`: with the lock taken the call waits
\* for a timer; otherwise it goes on, in the same turn of the event loop, to take
\* the lock and read the counter into temp, and waits for the second timer.
TestAndSet(c) ==
    IF safeCounter.lock
    THEN /\ incrementPc' = [incrementPc EXCEPT ![c] = "waiting"]
         /\ UNCHANGED <<safeCounter, incrementTemp>>
    ELSE /\ safeCounter' = [safeCounter EXCEPT !.lock = TRUE]
         /\ incrementTemp' = [incrementTemp EXCEPT ![c] = safeCounter.counter]
         /\ incrementPc' = [incrementPc EXCEPT ![c] = "holding"]

\* increment() is called.
CallIncrement(c) ==
    /\ incrementPc[c] = "idle"
    /\ TestAndSet(c)
    /\ UNCHANGED <<incrementReturn, now, cliVars, aiVars, recVars, parseVars>>
    /\ UNCHANGED <<detVars, incVars, fetchVars, testVars>>

\* The timer a waiting call awaits in the loop fires; the loop tests the lock again.
WaitTimerFires(c) ==
    /\ incrementPc[c] = "waiting"
    /\ TestAndSet(c)
    /\ UNCHANGED <<incrementReturn, now, cliVars, aiVars, recVars, parseVars>>
    /\ UNCHANGED <<detVars, incVars, fetchVars, testVars>>

\* The timer after the read fires: the call writes temp + 1, releases the lock and
\* returns the counter.
WriteBack(c) ==
    /\ incrementPc[c] = "holding"
    /\ safeCounter' = [counter |-> incrementTemp[c] + 1, lock |-> FALSE]
    /\ incrementReturn' = [incrementReturn EXCEPT ![c] = incrementTemp[c] + 1]
    /\ incrementPc' = [incrementPc EXCEPT ![c] = "done"]
    /\ UNCHANGED <<incrementTemp, now, cliVars, aiVars, recVars, parseVars>>
    /\ UNCHANGED <<detVars, incVars, fetchVars, testVars>>

getValue == safeCounter.counter

InitSafe ==
    /\ configFile = FileAbsent
    /\ reportFiles = {}
    /\ now = 0
    /\ last = NoRun
    /\ AiIdle
    /\ RecIdle
    /\ ParseIdle
    /\ DetIdle
    /\ safeCounter = [counter |-> 0, lock |-> FALSE]
    /\ incrementPc = [c \in Calls |-> "idle"]
    /\ incrementTemp = [c \in Calls |-> 0]
    /\ incrementReturn = [c \in Calls |-> 0]
    /\ IncIdle
    /\ FetchIdle
    /\ TestIdle

NextSafe ==
    \/ \E c \in Calls : CallIncrement(c)
    \/ \E c \in Calls : WaitTimerFires(c)
    \/ \E c \in Calls : WriteBack(c)

SpecSafe == InitSafe /\ [][NextSafe]_vars

----------------------------------------------------------------------------
(* VulnerableTestCases.js: incrementCounter() calls and their timer callbacks *)

\* incrementCounter() is called: it reads counter into temp and sets a timer.
incrementCounter(c) ==
    /\ timerPc[c] = "idle"
    /\ temp' = [temp EXCEPT ![c] = counter]
    /\ timerPc' = [timerPc EXCEPT ![c] = "scheduled"]
    /\ events' = Append(events, [kind |-> "call", call |-> c])
    /\ UNCHANGED <<counter, now, cliVars, aiVars, recVars, parseVars>>
    /\ UNCHANGED <<detVars, safeVars, fetchVars, testVars>>

\* Variant: the callback adds one to the counter as it is when the timer fires.
TimerCallbackRereads(c) ==
    /\ timerPc[c] = "scheduled"
    /\ counter' = counter + 1
    /\ timerPc' = [timerPc EXCEPT ![c] = "ran"]
    /\ events' = Append(events, [kind |-> "callback", call |-> c])
    /\ UNCHANGED <<temp, now, cliVars, aiVars, recVars, parseVars>>
    /\ UNCHANGED <<detVars, safeVars, fetchVars, testVars>>

\* A call's timer fires: the callback writes the temp it closed over, plus one.
TimerCallback(c) ==
    /\ timerPc[c] = "scheduled"
    /\ counter' = temp[c] + 1
    /\ timerPc' = [timerPc EXCEPT ![c] = "ran"]
    /\ events' = Append(events, [kind |-> "callback", call |-> c])
    /\ UNCHANGED <<temp, now, cliVars, aiVars, recVars, parseVars>>
    /\ UNCHANGED <<detVars, safeVars, fetchVars, testVars>>

InitInc ==
    /\ configFile = FileAbsent
    /\ reportFiles = {}
    /\ now = 0
    /\ last = NoRun
    /\ AiIdle
    /\ RecIdle
    /\ ParseIdle
    /\ DetIdle
    /\ SafeIdle
    /\ counter = 0
    /\ temp = [c \in Calls |-> 0]
    /\ timerPc = [c \in Calls |-> "idle"]
    /\ events = <<>>
    /\ FetchIdle
    /\ TestIdle

NextInc ==
    \/ \E c \in Calls : incrementCounter(c)
    \/ \E c \in Calls : TimerCallback(c)

SpecInc == InitInc /\ [][NextInc]_vars

----------------------------------------------------------------------------
(* FixedComponent: fetchUserData, called on mount and by the polling interval *)

\* Number of fetchUserData calls (the mount and the polls that follow).
MaxFetches == 3

UserIds == {"", "u1", "u2"}

\* response.data of a successful request.
UserRecords ==
    { [name |-> "Ann", email |-> "ann@example.org", canDelete |-> FALSE],
      [name |-> "Bob", email |-> "bob@example.org", canDelete |-> TRUE] }

\* err.response?.status of a failed request; 0 stands for no response (timeout).
FailureStatuses == {404, 500, 0}

userFriendlyMessage(status) ==
    IF status = 404 THEN "User not found" ELSE "Failed to load user data"

\* fetchUserData is called: it returns at once without a userId, otherwise it sets
\* the loading flag, clears the error and awaits the request.
fetchUserData ==
    /\ fetchPc \in {"idle", "settled"}
    /\ fetchCalls < MaxFetches
    /\ fetchCalls' = fetchCalls + 1
    /\ IF userId = ""
       THEN UNCHANGED <<isLoading, error, fetchPc>>
       ELSE /\ isLoading' = TRUE
            /\ error' = ""
            /\ fetchPc' = "requesting"
    /\ UNCHANGED <<userId, userData, onErrorCalls, now, cliVars, aiVars, recVars, parseVars>>
    /\ UNCHANGED <<detVars, safeVars, incVars, testVars>>

\* The request resolves: setUserData(response.data), then the finally block.
RequestResolves ==
    /\ fetchPc = "requesting"
    /\ \E data \in UserRecords : userData' = data
    /\ isLoading' = TRUE
    /\ fetchPc' = "settled"
    /\ UNCHANGED <<userId, error, fetchCalls, onErrorCalls, now, cliVars, aiVars, recVars, parseVars>>
    /\ UNCHANGED <<detVars, safeVars, incVars, testVars>>

\* The request rejects or times out: setError(message), the parent is told, then
\* the finally block.
RequestFails ==
    /\ fetchPc = "requesting"
    /\ \E status \in FailureStatuses :
           /\ error' = userFriendlyMessage(status)
           /\ onErrorCalls' = Append(onErrorCalls, userFriendlyMessage(status))
    /\ isLoading' = TRUE
    /\ fetchPc' = "settled"
    /\ UNCHANGED <<userId, userData, fetchCalls, now, cliVars, aiVars, recVars, parseVars>>
    /\ UNCHANGED <<detVars, safeVars, incVars, testVars>>

\* What the component renders: the loading view while isLoading, else the dashboard
\* (with the error in it when there is one).
render == IF isLoading THEN "loading" ELSE "dashboard"

InitFetch ==
    /\ configFile = FileAbsent
    /\ reportFiles = {}
    /\ now = 0
    /\ last = NoRun
    /\ AiIdle
    /\ RecIdle
    /\ ParseIdle
    /\ DetIdle
    /\ SafeIdle
    /\ IncIdle
    /\ userId \in UserIds
    /\ userData = NoValue
    /\ error = ""
    /\ isLoading = FALSE
    /\ fetchPc = "idle"
    /\ fetchCalls = 0
    /\ onErrorCalls = <<>>
    /\ TestIdle

NextFetch ==
    \/ fetchUserData
    \/ RequestResolves
    \/ RequestFails

SpecFetch == InitFetch /\ [][NextFetch]_vars

----------------------------------------------------------------------------
(* CodeAntCLI.runTestCases, one category of the loop per step *)

VulnerableFile  == "src/components/demo/VulnerableTestCases.js"
ProblematicFile == "src/components/demo/ProblematicComponent.jsx"

Issue(severity, title, file, line) ==
    [severity |-> severity, title |-> title, file |-> file, line |-> line]

NoResults == [total |-> 0, passed |-> 0, failed |-> 0, issues |-> <<>>]

\* Variant: one security test is counted both as passed and as failed.
runCategoryTestsMiscounted(category) ==
    IF category = JStr("security")
    THEN [total |-> 15, failed |-> 8, passed |-> 8,
          issues |-> << Issue("High", "SQL Injection Vulnerability", VulnerableFile, 4),
                        Issue("High", "XSS Vulnerability", VulnerableFile, 10),
                        Issue("Critical", "Hardcoded API Keys", VulnerableFile, 20) >>]
    ELSE IF category = JStr("performance")
    THEN [total |-> 8, failed |-> 3, passed |-> 5,
          issues |-> << Issue("Medium", "Memory Leak in useEffect", ProblematicFile, 20) >>]
    ELSE IF category = JStr("quality")
    THEN [total |-> 12, failed |-> 7, passed |-> 5,
          issues |-> << Issue("Low", "Missing PropTypes validation", ProblematicFile, 10) >>]
    ELSE IF category = JStr("accessibility")
    THEN [total |-> 6, failed |-> 2, passed |-> 4,
          issues |-> << Issue("Medium", "Missing ARIA labels", ProblematicFile, 85) >>]
    ELSE NoResults

runCategoryTests(category) ==
    IF category = JStr("security")
    THEN [total |-> 15, failed |-> 8, passed |-> 7,
          issues |-> << Issue("High", "SQL Injection Vulnerability", VulnerableFile, 4),
                        Issue("High", "XSS Vulnerability", VulnerableFile, 10),
                        Issue("Critical", "Hardcoded API Keys", VulnerableFile, 20) >>]
    ELSE IF category = JStr("performance")
    THEN [total |-> 8, failed |-> 3, passed |-> 5,
          issues |-> << Issue("Medium", "Memory Leak in useEffect", ProblematicFile, 20) >>]
    ELSE IF category = JStr("quality")
    THEN [total |-> 12, failed |-> 7, passed |-> 5,
          issues |-> << Issue("Low", "Missing PropTypes validation", ProblematicFile, 10) >>]
    ELSE IF category = JStr("accessibility")
    THEN [total |-> 6, failed |-> 2, passed |-> 4,
          issues |-> << Issue("Medium", "Missing ARIA labels", ProblematicFile, 85) >>]
    ELSE NoResults

AllCategories ==
    << JStr("security"), JStr("performance"), JStr("quality"), JStr("accessibility") >>

\* runTestCases up to the loop: the gate, the list of categories, the empty aggregate.
EnterRunTestCases ==
    /\ testPc = "ready"
    /\ IF isProjectConnectedThrows(configFile) \/ ~isProjectConnected(configFile)
       THEN /\ testPc' = "thrown"
            /\ UNCHANGED <<testCategories, testResults>>
       ELSE /\ testCategories' = IF Truthy(Get(testOptions, "category"))
                                  THEN << Get(testOptions, "category") >>
                                  ELSE AllCategories
            /\ testResults' = NoResults
            /\ testPc' = "loop"
    /\ UNCHANGED <<testOptions, testProcessed, now, cliVars, aiVars, recVars, parseVars>>
    /\ UNCHANGED <<detVars, safeVars, incVars, fetchVars>>

\* One iteration of the loop: the category's results are added to the aggregate.
RunCategory ==
    /\ testPc = "loop"
    /\ testCategories # <<>>
    /\ LET category        == Head(testCategories)
           categoryResults == runCategoryTests(category)
       IN  /\ testResults' =
                  [total  |-> testResults.total + categoryResults.total,
                   passed |-> testResults.passed + categoryResults.passed,
                   failed |-> testResults.failed + categoryResults.failed,
                   issues |-> testResults.issues \o categoryResults.issues]
           /\ testProcessed' = Append(testProcessed,
                                      [category |-> category, results |-> categoryResults])
    /\ testCategories' = Tail(testCategories)
    /\ UNCHANGED <<testOptions, testPc, now, cliVars, aiVars, recVars, parseVars>>
    /\ UNCHANGED <<detVars, safeVars, incVars, fetchVars>>

\* After the loop: the summary is printed and runTestCases returns.
PrintSummary ==
    /\ testPc = "loop"
    /\ testCategories = <<>>
    /\ testPc' = "done"
    /\ UNCHANGED <<testOptions, testCategories, testResults, testProcessed>>
    /\ UNCHANGED <<now, cliVars, aiVars, recVars, parseVars>>
    /\ UNCHANGED <<detVars, safeVars, incVars, fetchVars>>

\* The words given after `test` on the command line.
TestTokens == {"--category", "--fix", "security", "performance", "quality",
               "accessibility", "lint"}

RECURSIVE TestArgSeqs(_)
TestArgSeqs(n) ==
    IF n = 0 THEN { <<>> }
    ELSE TestArgSeqs(n - 1)
         \cup { Append(a, t) : a \in {x \in TestArgSeqs(n - 1) : Len(x) = n - 1},
                               t \in TestTokens }

\* The config file connect leaves behind on a project initialized with defaults.
ConnectedConfig ==
    FileOf(JSONstringify(SetKey(SetKey(defaultConfig, "connected", JTrue),
                                "connectedAt", JStr(toISOString(0)))))

InitTest ==
    /\ configFile \in {ConnectedConfig, FileOf(JSONstringify(defaultConfig))}
    /\ reportFiles = {}
    /\ now = 0
    /\ last = NoRun
    /\ AiIdle
    /\ RecIdle
    /\ ParseIdle
    /\ DetIdle
    /\ SafeIdle
    /\ IncIdle
    /\ FetchIdle
    /\ testOptions \in {parseOptions(args) : args \in TestArgSeqs(MaxArgs)}
    /\ testCategories = <<>>
    /\ testResults = NoResults
    /\ testProcessed = <<>>
    /\ testPc = "ready"

NextTest ==
    \/ EnterRunTestCases
    \/ RunCategory
    \/ PrintSummary

SpecTest == InitTest /\ [][NextTest]_vars

----------------------------------------------------------------------------
(* Properties of the session gate and the configuration store *)

GatedCommands == {"scan", "analyze", "test", "report"}

\* The configuration a file holds, {} when it holds none.
ConfigOf(f) == IF f.state = "json" THEN JSONparse(f) ELSE EmptyObject

\* The file the last invocation found was missing, or held a config whose
\* connected field was not the boolean true.
LastFoundUnconnected ==
    \/ last.pre.state = "absent"
    \/ last.pre.state = "json" /\ Get(ConfigOf(last.pre), "connected") # JTrue

\* C1: when no config file exists, or the config's connected field is not exactly
\* true, each of scan, analyze, test and report (whatever its options) fails with the
\* "not connected" error, the process exits with status 1 and no report file is created.
C1_GateNotConnected ==
    (last.command \in GatedCommands /\ LastFoundUnconnected)
        => /\ last.exit = 1
           /\ last.stderr = NotConnectedMsg
           /\ reportFiles = last.preReports

\* scan --type secrets on a project that was initialized with connected given as the
\* string "true", and the gate refused it.
C1_Witness ==
    /\ last.command = "scan"
    /\ Get(last.options, "type") = JStr("secrets")
    /\ last.pre.state = "json"
    /\ Get(ConfigOf(last.pre), "connected") = JStr("true")
    /\ last.exit = 1

\* C2: with no config file, connect (whatever its options) fails with the
\* "not initialized" error, exits with status 1, and there is still no config file.
C2_ConnectNotInitialized ==
    (last.command = "connect" /\ last.pre.state = "absent")
        => /\ last.exit = 1
           /\ last.stderr = NotInitializedMsg
           /\ configFile.state = "absent"

C2_Witness ==
    /\ last.command = "connect"
    /\ last.pre.state = "absent"
    /\ Get(last.options, "repo") = JStr("github.com/u/r")
    /\ last.exit = 1

\* C3: whenever connect completes successfully, the persisted config has connected
\* equal to true and a non-empty connectedAt timestamp.
C3_ConnectPersists ==
    (last.command = "connect" /\ last.exit = 0)
        => /\ configFile.state = "json"
           /\ Get(ConfigOf(configFile), "connected") = JTrue
           /\ Get(ConfigOf(configFile), "connectedAt").tag = "string"
           /\ Get(ConfigOf(configFile), "connectedAt").s # ""

C3_Witness ==
    /\ last.command = "connect"
    /\ last.exit = 0
    /\ last.pre.state = "json"
    /\ Get(ConfigOf(last.pre), "connected") = JUndefined
    /\ Get(ConfigOf(configFile), "connected") = JTrue

\* C4: in every persisted config, connected = true implies connectedAt is set.
C4_ConnectedImpliesConnectedAt ==
    (configFile.state = "json" /\ Get(ConfigOf(configFile), "connected") = JTrue)
        => Truthy(Get(ConfigOf(configFile), "connectedAt"))

\* C5: a command that fails leaves the config file as it found it and performs no
\* write to it; scan, analyze, test, report, config and help never write the config
\* file, whether they succeed or fail.
C5_NoWriteOnFailure ==
    /\ last.exit = 1 => (configFile = last.pre /\ last.configWrites = 0)
    /\ last.command \in GatedCommands \cup {"config", "help", "deploy"}
           => (configFile = last.pre /\ last.configWrites = 0)

\* report refused on an initialized, unconnected project: the file is as it was.
C5_Witness ==
    /\ last.command = "report"
    /\ last.exit = 1
    /\ last.stderr = NotConnectedMsg
    /\ last.pre.state = "json"
    /\ configFile = last.pre

----------------------------------------------------------------------------
(* Properties of the report aggregator *)

\* C6: whichever of the three sub-operations fail, exactly their sections of the
\* report are the error marker, every other section is the result its sub-operation
\* returned, and generateReport returns success with the report.
C6_PartialFailure ==
    aiPc = "returned"
        => /\ aiReturn.success
           /\ \A t \in Tasks :
                  IF taskResult[t].success
                  THEN aiReturn.report[t] = taskResult[t]
                  ELSE DOMAIN aiReturn.report[t] = {"error"}

\* A report returned after the quality request alone failed.
C6_Witness ==
    /\ aiPc = "returned"
    /\ taskResult["security"].success
    /\ ~taskResult["quality"].success
    /\ taskResult["analysis"].success
    /\ DOMAIN aiReturn.report["quality"] = {"error"}

\* C7: the three sub-operations are started together; under every completion order
\* the report exists only once all three have settled, and each of its sections and
\* its recommendations come from the sub-operation of that name, not from the order
\* in which the sub-operations settled.
C7_JoinBeforeMerge ==
    /\ aiPc = "joining" => \A t \in Tasks : taskPc[t] \in {"pending", "settled"}
    /\ aiPc = "returned"
           => /\ AllSettled
              /\ Len(completed) = Cardinality(Tasks)
              /\ \A t \in Tasks :
                     taskResult[t].success => aiReturn.report[t] = taskResult[t]
              /\ aiReturn.report.recommendations
                     = generateRecommendations(taskResult["security"], taskResult["quality"])
    /\ aiPc # "returned" => aiReturn = NoValue

\* A report returned after the sub-operations settled in the reverse of the order in
\* which they were started.
C7_Witness ==
    /\ aiPc = "returned"
    /\ completed = <<"analysis", "quality", "security">>
    /\ \A t \in Tasks : taskResult[t].success

PerformanceEntries(recs) ==
    {i \in DOMAIN recs : recs[i].category = "Performance"}

\* C8: for every pair of security-scan and quality-metrics results, the list
\* generateRecommendations returns has exactly one entry of category Performance,
\* and its priority is Low.
C8_OnePerformanceEntry ==
    recPc = "called"
        => /\ Cardinality(PerformanceEntries(recommendations)) = 1
           /\ \A i \in PerformanceEntries(recommendations) : recommendations[i].priority = "Low"

\* Both requests failed and the list still holds the Performance entry.
C8_Witness ==
    /\ recPc = "called"
    /\ ~recSecurity.success
    /\ ~recQuality.success
    /\ Cardinality(PerformanceEntries(recommendations)) = 1

SecurityEntries(recs) ==
    {i \in DOMAIN recs : recs[i].category = "Security" /\ recs[i].priority = "High"}

\* The number n for which the message reads "Found n security vulnerabilities...".
StatesCount(message, n) ==
    LET head == "Found " \o ToString(n) \o " security vulnerabilities."
    IN  Len(message) >= Len(head) /\ SubSeq(message, 1, Len(head)) = head

\* The number of vulnerabilities a scan result reports: none when the scan failed.
ReportedVulnerabilities(scan) == IF scan.success THEN Len(scan.vulnerabilities) ELSE 0

\* C9: the list has a High-priority Security entry exactly when the security scan
\* reported at least one vulnerability, and the count in its message is the number
\* of vulnerabilities in the scan result.
C9_SecurityEntry ==
    recPc = "called"
        => /\ (SecurityEntries(recommendations) # {}) <=> (ReportedVulnerabilities(recSecurity) > 0)
           /\ \A i \in SecurityEntries(recommendations) :
                  StatesCount(recommendations[i].message, ReportedVulnerabilities(recSecurity))

\* A scan with a single vulnerability produced the Security entry.
C9_Witness ==
    /\ recPc = "called"
    /\ ReportedVulnerabilities(recSecurity) = 1
    /\ SecurityEntries(recommendations) # {}

QualityEntries(recs) ==
    {i \in DOMAIN recs : recs[i].category = "Code Quality" /\ recs[i].priority = "Medium"}

\* C10: the list has a Medium-priority Code Quality entry exactly when the quality
\* score is strictly less than 8; a score of exactly 8 yields none.
C10_QualityEntry ==
    recPc = "called"
        => ((QualityEntries(recommendations) # {})
                <=> (recQuality.success /\ recQuality.qualityScore < 8))

\* A quality score of exactly 8 produced no Code Quality entry.
C10_Witness ==
    /\ recPc = "called"
    /\ recQuality.success
    /\ recQuality.qualityScore = 8
    /\ QualityEntries(recommendations) = {}

\* The place of a category in the fixed order of the derivation rules.
CategoryRank(category) ==
    CASE category = "Security"     -> 1
      [] category = "Code Quality" -> 2
      [] category = "Performance"  -> 3
      [] OTHER                     -> 0

\* C11: in every list generateRecommendations returns the entries are in the order
\* Security, Code Quality, Performance (the first two possibly absent): Performance
\* is the last entry and no category appears twice.
C11_FixedOrder ==
    recPc = "called"
        => /\ Len(recommendations) >= 1
           /\ recommendations[Len(recommendations)].category = "Performance"
           /\ \A i \in DOMAIN recommendations : CategoryRank(recommendations[i].category) > 0
           /\ \A i, j \in DOMAIN recommendations :
                  i < j => CategoryRank(recommendations[i].category)
                               < CategoryRank(recommendations[j].category)

\* All three rules fired: the list is Security, Code Quality, Performance.
C11_Witness ==
    /\ recPc = "called"
    /\ Len(recommendations) = 3
    /\ recommendations[1].category = "Security"
    /\ recommendations[2].category = "Code Quality"
    /\ recommendations[3].category = "Performance"

----------------------------------------------------------------------------
(* Properties of init, connect, report and the dispatcher *)

\* The keys of a nested object value.
ObjKeys(v) == {p[1] : p \in v.o}

\* The nested keys an override of a top-level key names: the keys of an object
\* value, the rule or metric a string value names, none when the key is not given.
OverriddenKeys(options, k) ==
    IF k \notin DOMAIN options THEN {}
    ELSE IF options[k].tag = "object" THEN ObjKeys(options[k])
    ELSE {options[k].s}

\* C12: after init with any overrides, the persisted rules and thresholds are the
\* defaults with only the overridden keys changed: every other default rule and
\* threshold key is still there with its default value.
C12_NestedMerge ==
    (last.command = "init" /\ last.exit = 0)
        => \A k \in {"rules", "thresholds"} :
               /\ Get(ConfigOf(configFile), k).tag = "object"
               /\ \A p \in defaultConfig[k].o :
                      p[1] \notin OverriddenKeys(last.options, k)
                          => p \in Get(ConfigOf(configFile), k).o

NewReports == reportFiles \ last.preReports

\* C14: after init with projectName X, connect and report --format json, the config
\* has projectName X and connected = true, and the report file written is a JSON
\* object with the keys security, quality, analysis and recommendations.
C14_EndToEnd ==
    ( /\ last.command = "report"
      /\ last.exit = 0
      /\ Get(last.options, "format") = JStr("json")
      /\ Get(ConfigOf(configFile), "projectName") = JStr("X")
      /\ Get(ConfigOf(configFile), "connected") = JTrue
      /\ Truthy(Get(ConfigOf(configFile), "connectedAt")) )
        => \E f \in NewReports :
               {"security", "quality", "analysis", "recommendations"} \subseteq DOMAIN f.text

\* C15: for every command run() dispatches, if the operation raises a failure then
\* exactly one error line is printed and the process ends with status 1; if it
\* completes, no error line is printed and the status is 0. The operation is called
\* exactly once.
C15_SingleErrorLine ==
    last.calls # 0
        => /\ last.calls = 1
           /\ last.raised  => (last.errorLines = 1 /\ last.exit = 1 /\ last.stderr # "")
           /\ ~last.raised => (last.errorLines = 0 /\ last.exit = 0 /\ last.stderr = "")

\* connect on a project that was never initialized raised a failure.
C15_Witness ==
    /\ last.operation = "connectRepository"
    /\ last.raised
    /\ last.errorLines = 1
    /\ last.exit = 1

\* C16: for every command word outside the fixed set, and when no command is given,
\* the dispatcher shows help, raises no error, exits with status 0 and writes neither
\* the config file nor a report file.
C16_UnknownCommandShowsHelp ==
    (last.calls = 1 /\ last.given \notin FixedCommands)
        => /\ last.operation = "showHelp"
           /\ ~last.raised
           /\ last.exit = 0
           /\ last.errorLines = 0
           /\ configFile = last.pre
           /\ last.configWrites = 0
           /\ reportFiles = last.preReports

\* An unlisted command word on an initialized project.
C16_Witness ==
    /\ last.calls = 1
    /\ last.given = "deploy"
    /\ last.operation = "showHelp"
    /\ last.pre.state = "json"
    /\ last.exit = 0

\* C17: help and config bypass the session gate: with no config, with a config that
\* is not connected and with a connected one, each completes without a failure, exits
\* with status 0 and leaves the config file as it was; config with no config file
\* does not create one.
C17_HelpAndConfigBypassGate ==
    (last.command \in {"help", "config"} /\ last.pre.state \in {"absent", "json"})
        => /\ ~last.raised
           /\ last.exit = 0
           /\ configFile = last.pre
           /\ last.configWrites = 0

\* config on an initialized project that is not connected.
C17_Witness ==
    /\ last.command = "config"
    /\ last.pre.state = "json"
    /\ ~isProjectConnected(last.pre)
    /\ last.exit = 0
    /\ configFile = last.pre

\* The value the claim gives the flag at position i: the token after it, or true
\* when the flag is last or is directly followed by another flag.
ClaimedValue(args, i) ==
    IF i < Len(args) /\ ~startsWithDashes(args[i + 1]) THEN JStr(args[i + 1]) ELSE JTrue

\* C18: for every argument list, parseOptions turns every token that begins with
\* "--", at any position, into an option keyed by the token without the prefix, whose
\* value is the token that follows it, or true if no value follows. (Where a flag is
\* repeated, its last occurrence is the one looked at.)
C18_EveryFlagParsed ==
    parsePc = "called"
        => \A i \in 1 .. Len(parseArgs) :
               ( /\ startsWithDashes(parseArgs[i])
                 /\ \A j \in (i + 1) .. Len(parseArgs) : parseArgs[j] # parseArgs[i] )
                   => LET key == SubSeq(parseArgs[i], 3, Len(parseArgs[i]))
                      IN  /\ key \in DOMAIN parseResult
                          /\ parseResult[key] = ClaimedValue(parseArgs, i)

ConnectKeys == {"connected", "connectedAt"}

\* C19: connect, whatever its options, changes only connected and connectedAt in the
\* persisted config: every other key of the record it found, keys unknown to the
\* defaults included, is still there with its value, and no other key is added.
C19_ConnectPreservesKeys ==
    (last.command = "connect" /\ last.exit = 0)
        => /\ DOMAIN ConfigOf(configFile) = (DOMAIN ConfigOf(last.pre)) \cup ConnectKeys
           /\ \A k \in (DOMAIN ConfigOf(last.pre)) \ ConnectKeys :
                  ConfigOf(configFile)[k] = ConfigOf(last.pre)[k]

\* connect --repo on a config that carries the extra key category.
C19_Witness ==
    /\ last.command = "connect"
    /\ last.exit = 0
    /\ "repo" \in DOMAIN last.options
    /\ Get(ConfigOf(last.pre), "category") = JStr("security")
    /\ Get(ConfigOf(configFile), "category") = JStr("security")
    /\ Get(ConfigOf(configFile), "repository") = defaultConfig["repository"]

\* The last invocation wrote exactly one report file, named after the clock reading
\* of that invocation, and left the earlier report files alone.
WroteOneTimestampedReport ==
    /\ last.preReports \subseteq reportFiles
    /\ Cardinality(NewReports) = 1
    /\ \A f \in NewReports : f.name = "codeant-report-" \o ToString(now - 1) \o ".json"

\* C20 as stated: a successful report writes exactly one report file, named with the
\* generation timestamp, if and only if --format json was given; otherwise it writes
\* no file. In neither case is the config written.
C20_ReportFileIffFormatJson ==
    (last.command = "report" /\ last.exit = 0)
        => /\ IF Get(last.options, "format") = JStr("json")
              THEN WroteOneTimestampedReport
              ELSE reportFiles = last.preReports
           /\ configFile = last.pre
           /\ last.configWrites = 0

\* C20 as amended: the file is written if and only if --format json was given or the
\* json option is truthy (--json); otherwise no file is written. In neither case is
\* the config written.
C20_ReportFileIffJsonRequested ==
    (last.command = "report" /\ last.exit = 0)
        => /\ IF Get(last.options, "format") = JStr("json") \/ Truthy(Get(last.options, "json"))
              THEN WroteOneTimestampedReport
              ELSE reportFiles = last.preReports
           /\ configFile = last.pre
           /\ last.configWrites = 0

\* report --json, without --format, wrote the report file.
C20_Witness ==
    /\ last.command = "report"
    /\ last.exit = 0
    /\ Get(last.options, "json") = JTrue
    /\ "format" \notin DOMAIN last.options
    /\ WroteOneTimestampedReport

----------------------------------------------------------------------------
(* Properties of a config file that does not parse *)

ReadingCommands == {"connect", "scan", "analyze", "test", "report", "config"}

\* C21: when the config file exists but does not parse, each of connect, scan,
\* analyze, test, report and config raises a failure, prints a single error line and
\* exits with a non-zero status, the config file is as it was and no report file is
\* written; init completes and replaces the file with the defaults merged with its
\* options.
C21_CorruptConfig ==
    last.pre.state = "corrupt"
        => /\ last.command \in ReadingCommands
                => /\ last.raised
                   /\ last.errorLines = 1
                   /\ last.exit # 0
                   /\ configFile = last.pre
                   /\ last.configWrites = 0
                   /\ reportFiles = last.preReports
           /\ last.command = "init"
                => /\ last.exit = 0
                   /\ last.errorLines = 0
                   /\ configFile = FileOf(JSONstringify(Spread(defaultConfig, last.options)))

\* report --format json on a config file that does not parse.
C21_Witness ==
    /\ last.command = "report"
    /\ Get(last.options, "format") = JStr("json")
    /\ last.pre.state = "corrupt"
    /\ last.exit = 1
    /\ last.stderr = SyntaxErrorMsg
    /\ configFile = FileCorrupt
    /\ reportFiles = {}

----------------------------------------------------------------------------
(* Properties of the mock producers *)

\* C22: whatever the random numbers, the security scan returns an integer security
\* score from 8 to 10 and a vulnerability list that is either empty or the fixed
\* two-item sample, CVE-2024-1234 then CODEANT-SEC-001.
C22_SecurityScanRange ==
    (taskPc["security"] = "settled" /\ taskResult["security"].success)
        => /\ taskResult["security"].securityScore \in 8 .. 10
           /\ \/ taskResult["security"].vulnerabilities = <<>>
              \/ /\ Len(taskResult["security"].vulnerabilities) = 2
                 /\ taskResult["security"].vulnerabilities[1].id = "CVE-2024-1234"
                 /\ taskResult["security"].vulnerabilities[2].id = "CODEANT-SEC-001"
                 /\ taskResult["security"].vulnerabilities = mockVulnerabilities

\* A scan that returned the top score together with the two-item sample.
C22_Witness ==
    /\ taskPc["security"] = "settled"
    /\ taskResult["security"].success
    /\ taskResult["security"].securityScore = 10
    /\ Len(taskResult["security"].vulnerabilities) = 2

\* The entries of a recommendation list whose category is Code Quality.
CodeQualityEntries(recs) == {i \in 1 .. Len(recs) : recs[i].category = "Code Quality"}

\* C26: with the built-in mock producers the quality score returned by the
\* quality-metrics sub-operation is 8 or 9, so no report generateReport returns has a
\* Code Quality recommendation, and its recommendation list has length 1 or 2.
C26_NoQualityRecommendation ==
    /\ (taskPc["quality"] = "settled" /\ taskResult["quality"].success)
           => taskResult["quality"].qualityScore \in {8, 9}
    /\ aiPc = "returned"
           => /\ CodeQualityEntries(aiReturn.report.recommendations) = {}
              /\ Len(aiReturn.report.recommendations) \in {1, 2}

\* A report whose quality section came back with score 8 and whose list has the
\* security entry and the performance entry.
C26_Witness ==
    /\ aiPc = "returned"
    /\ taskResult["quality"].success
    /\ taskResult["quality"].qualityScore = 8
    /\ Len(aiReturn.report.recommendations) = 2

----------------------------------------------------------------------------
(* Properties of repeated report generation *)

\* C23: with the random source fixed, two generateReport calls with the same config
\* return the same Report.
C23_SameSourceSameReport ==
    (reportCalls = 2 /\ aiPc = "returned")
        => aiReturn.report = firstReturn.report

----------------------------------------------------------------------------
(* Properties of the session across invocations *)

\* The session gate lets scan, analyze, test and report through on this file.
GateOpen(f) == f.state = "json" /\ Get(ConfigOf(f), "connected") = JTrue

\* C24: after any sequence of commands with any options, the session gate is open
\* only if a connect has completed since the most recent init: an invocation leaves
\* the gate open only if it was a connect, or the gate was open before it and the
\* invocation was not an init.
C24_OnlyConnectOpensGate ==
    [][ GateOpen(configFile')
            => \/ last'.command = "connect" /\ last'.exit = 0
               \/ GateOpen(configFile) /\ last'.command # "init" ]_vars

----------------------------------------------------------------------------
(* Properties of the two counters *)

\* The increment() calls that have been started, those between reading the counter
\* and writing it back, and those that have returned.
Started  == {c \in Calls : incrementPc[c] # "idle"}
Holding  == {c \in Calls : incrementPc[c] = "holding"}
Returned == {c \in Calls : incrementPc[c] = "done"}

\* C27: for any number of increment() calls started on one SafeCounter and any order
\* of their timers, at most one call is between reading the counter and writing it
\* back, and once all the calls started have returned getValue() is their number.
C27_NoLostUpdate ==
    /\ Cardinality(Holding) <= 1
    /\ Returned = Started => getValue = Cardinality(Started)

\* Three calls were started, two of them had to wait for the lock, and all three
\* have returned.
C27_Witness ==
    /\ Cardinality(Started) = 3
    /\ Returned = Started
    /\ getValue = 3
    /\ {incrementReturn[c] : c \in Returned} = {1, 2, 3}

\* The incrementCounter() calls made so far and those whose callback has run.
Issued == {c \in Calls : timerPc[c] # "idle"}
Ran    == {c \in Calls : timerPc[c] = "ran"}

\* Every call made so far was made before any timer callback ran.
AllIssuedBeforeAnyCallback ==
    \A i, j \in DOMAIN events :
        (events[i].kind = "call" /\ events[j].kind = "callback") => i < j

\* C28: incrementCounter loses updates under overlapping calls: whenever two calls
\* (or more) are all issued before any of their timer callbacks runs, then after all
\* the callbacks have run the counter has increased by 1, not by the number of calls.
C28_LostUpdate ==
    (Cardinality(Issued) >= 2 /\ Ran = Issued /\ AllIssuedBeforeAnyCallback)
        => /\ counter = 1
           /\ counter < Cardinality(Issued)

\* Two calls, both issued before either callback; both callbacks have run in the
\* order the timers were set, and the counter is 1.
C28_Witness ==
    /\ events = << [kind |-> "call", call |-> 1], [kind |-> "call", call |-> 2],
                   [kind |-> "callback", call |-> 1], [kind |-> "callback", call |-> 2] >>
    /\ temp[1] = 0
    /\ temp[2] = 0
    /\ counter = 1

----------------------------------------------------------------------------
(* Properties of FixedComponent *)

\* C29: once the request of a fetchUserData call has settled, whether it succeeded
\* or failed, isLoading is false and the component renders the dashboard (or the
\* error), not the loading view.
C29_LeavesLoading ==
    fetchPc = "settled" => (~isLoading /\ render = "dashboard")

----------------------------------------------------------------------------
(* Properties of the test command *)

RecognisedCategories == {"security", "performance", "quality", "accessibility"}

RECURSIVE SumOfTotals(_)
SumOfTotals(processed) ==
    IF processed = <<>> THEN 0
    ELSE processed[1].results.total + SumOfTotals(Tail(processed))

RECURSIVE IssuesInOrder(_)
IssuesInOrder(processed) ==
    IF processed = <<>> THEN <<>>
    ELSE processed[1].results.issues \o IssuesInOrder(Tail(processed))

\* C30: in the test command, for every category option (a recognised name, any other
\* value, or none, meaning the four categories in their fixed order), after each
\* category is accumulated the aggregate has passed + failed = total, total is the
\* sum of the totals of the categories processed so far, and issues is their issue
\* lists concatenated in processing order; a category that is not recognised
\* contributes no test and no issue.
C30_Accumulation ==
    testPc \in {"loop", "done"}
        => /\ testResults.passed + testResults.failed = testResults.total
           /\ testResults.total = SumOfTotals(testProcessed)
           /\ testResults.issues = IssuesInOrder(testProcessed)
           /\ \A i \in DOMAIN testProcessed :
                  ~(testProcessed[i].category.tag = "string"
                        /\ testProcessed[i].category.s \in RecognisedCategories)
                      => testProcessed[i].results = NoResults
           /\ testPc = "done"
                  => [i \in DOMAIN testProcessed |-> testProcessed[i].category]
                        = IF Truthy(Get(testOptions, "category"))
                          THEN << Get(testOptions, "category") >>
                          ELSE << JStr("security"), JStr("performance"),
                                  JStr("quality"), JStr("accessibility") >>

\* test with no category: the four categories were processed in order, 41 tests,
\* 21 passed, 20 failed, 6 issues, the three security issues first.
C30_Witness ==
    /\ testPc = "done"
    /\ "category" \notin DOMAIN testOptions
    /\ Len(testProcessed) = 4
    /\ testResults.total = 41
    /\ testResults.passed = 21
    /\ testResults.failed = 20
    /\ Len(testResults.issues) = 6
    /\ testResults.issues[1].title = "SQL Injection Vulnerability"
    /\ testResults.issues[6].title = "Missing ARIA labels"

====
